---- MODULE Spec2Model ----
(***************************************************************************)
(* Model of the threshold-cryptography library: Poly (poly.rs),            *)
(* Commitment (commitment.rs), BivarPoly (bipoly.rs), BivarCommitment      *)
(* (bicommitment.rs), the helpers of util.rs, the keys and ciphertexts     *)
(* (sk.rs, pk.rs, ciphertext.rs, sk_share.rs), the key sets (sk_set.rs,    *)
(* pk_set.rs), signature aggregation (sig.rs), the signed conversions of   *)
(* into_scalar.rs, and Zeroize / Drop of the secret-carrying values.       *)
(*                                                                         *)
(* Representation.  The scalar field Fr of BLS12-381 is a prime field; the *)
(* model keeps the field structure and scales the prime down to P.  G1 is  *)
(* a cyclic group of the same prime order, written additively; a point is  *)
(* represented by its residue in Z_P, the generator is a fixed non-zero,   *)
(* non-unit residue, the identity is 0, and scalar multiplication is       *)
(* multiplication mod P.  A Poly / Commitment is the sequence `coeff`.     *)
(* A panic of the code is the result [panic |-> TRUE].                     *)
(***************************************************************************)
EXTENDS Integers, Sequences, FiniteSets, TLC

VARIABLES
    op,       \* the operation that was applied ("init": none yet)
    p,        \* coeff of the left Poly / Commitment operand (poly.rs:
              \* Poly::coeff); the poly of the SecretKeySet
    q,        \* coeff of the right Poly / Commitment operand; the message,
              \* or the Ciphertext handed to a decryption
    x,        \* first scalar argument; the number of dealers; the SecretKey
    samples,  \* the (x, y) samples given to Poly::interpolate; the
              \* (index, share) pairs given to a combining function
    bipoly,   \* the dealer's BivarPoly: degree and coeff (bipoly.rs)
    y,        \* second scalar argument; the dealers' degree; the
              \* encryption randomness
    out       \* the returned value, or a panic

vars == <<op, p, q, x, samples, bipoly, y, out>>

----------------------------------------------------------------------------
(* Bounds of the model *)

\* longest coefficient vector of a Poly operand
MaxLen == 2
\* largest number of interpolation samples
MaxSamples == 3
\* largest degree of a BivarPoly
MaxDegree == 1
\* coefficients drawn by BivarPoly::random lie in 0..MaxCoef
MaxCoef == 2
\* width of usize, in bits
usize_BITS == 8

----------------------------------------------------------------------------
(* bls12_381::Scalar: the prime field *)

P == 7

Fr == 0..(P - 1)

Scalar_zero == 0

Scalar_one == 1

add_assign(a, b) == (a + b) % P

sub_assign(a, b) == (a + P - b) % P

mul_assign(a, b) == (a * b) % P

neg(a) == (P - a) % P

\* Scalar::invert: a CtOption, here a sequence of length 0 (None) or 1 (Some)
invert(a) == IF a = 0 THEN <<>> ELSE <<CHOOSE b \in Fr : (a * b) % P = 1>>

\* IntoScalar for i32 / i64, on the integers the tests use
into_scalar(n) == IF n >= 0 THEN n % P ELSE neg((-n) % P)

----------------------------------------------------------------------------
(* bls12_381::G1Projective / G1Affine: a cyclic group of order P *)

G1 == 0..(P - 1)

G1_identity == 0

G1_generator == 3

G1_add(a, b) == (a + b) % P

\* point * scalar
G1_mul(a, s) == (a * s) % P

----------------------------------------------------------------------------
(* Poly *)

Panic == [panic |-> TRUE]

Ok(v) == [panic |-> FALSE, val |-> v]

\* all coefficient vectors of length 0..n
SeqsUpTo(S, n) == UNION {[1..k -> S] : k \in 0..n}

Poly_zero == <<>>

Poly_constant(c) == <<c>>

Poly_one == Poly_constant(Scalar_one)

Poly_monomial(degree) == [k \in 1..(degree + 1) |-> IF k = degree + 1 THEN Scalar_one ELSE Scalar_zero]

\* Poly::random(degree): any degree + 1 scalars
Poly_random(degree) == [1..(degree + 1) -> Fr]

Poly_degree(c) == IF Len(c) = 0 THEN 0 ELSE Len(c) - 1

Poly_is_zero(c) == \A k \in 1..Len(c) : c[k] = 0

RECURSIVE Poly_remove_zeros(_)
Poly_remove_zeros(c) ==
    IF Len(c) = 0 THEN c
    ELSE IF c[Len(c)] = 0 THEN Poly_remove_zeros(SubSeq(c, 1, Len(c) - 1))
    ELSE c

RECURSIVE Horner(_, _, _, _)
Horner(c, xx, k, result) ==
    IF k = 0 THEN result
    ELSE Horner(c, xx, k - 1, add_assign(mul_assign(result, xx), c[k]))

Poly_evaluate(c, xx) ==
    IF Len(c) = 0 THEN Scalar_zero ELSE Horner(c, xx, Len(c) - 1, c[Len(c)])

\* Vec::resize to a longer length, filling with `fill`
Resize(c, n, fill) == [k \in 1..n |-> IF k <= Len(c) THEN c[k] ELSE fill]

\* fault: add_assign without the resize, dropping the tail of a longer rhs
Poly_add_assign_unresized(self, rhs) ==
    Poly_remove_zeros([k \in 1..Len(self) |->
        IF k <= Len(rhs) THEN add_assign(self[k], rhs[k]) ELSE self[k]])

Poly_add_assign(self, rhs) ==
    LET s == IF Len(rhs) > Len(self) THEN Resize(self, Len(rhs), Scalar_zero) ELSE self
    IN Poly_remove_zeros([k \in 1..Len(s) |->
           IF k <= Len(rhs) THEN add_assign(s[k], rhs[k]) ELSE s[k]])

Poly_sub_assign(self, rhs) ==
    LET s == IF Len(rhs) > Len(self) THEN Resize(self, Len(rhs), Scalar_zero) ELSE self
    IN Poly_remove_zeros([k \in 1..Len(s) |->
           IF k <= Len(rhs) THEN sub_assign(s[k], rhs[k]) ELSE s[k]])

RECURSIVE SumTo(_, _)
\* sum of f[1..n] in the field
SumTo(f, n) == IF n = 0 THEN Scalar_zero ELSE add_assign(SumTo(f, n - 1), f[n])

\* Mul<B> for &Poly: coeffs[i + j] += ca * cb over all i, j
Poly_mul(self, rhs) ==
    IF Poly_is_zero(rhs) \/ Poly_is_zero(self) THEN Poly_zero
    ELSE [k \in 1..(Len(self) + Len(rhs) - 1) |->
            SumTo([i \in 1..Len(self) |->
                     IF (k + 1 - i) \in 1..Len(rhs)
                     THEN mul_assign(self[i], rhs[k + 1 - i])
                     ELSE Scalar_zero], Len(self))]

\* MulAssign<Scalar> for Poly, Mul<&Scalar> for Poly
Poly_mul_scalar(self, rhs) ==
    IF rhs = 0 THEN <<>>
    ELSE [k \in 1..Len(self) |-> mul_assign(self[k], rhs)]

\* Add<Scalar> for Poly; indexing coeff[0] of an empty vector panics
Poly_add_scalar(self, rhs) ==
    IF Poly_is_zero(self) /\ rhs # 0 THEN Ok(Append(self, rhs))
    ELSE IF Len(self) = 0 THEN Panic
    ELSE Ok(Poly_remove_zeros([self EXCEPT ![1] = add_assign(self[1], rhs)]))

\* Sub<Scalar> for Poly
Poly_sub_scalar(self, rhs) == Poly_add_scalar(self, neg(rhs))

----------------------------------------------------------------------------
(* Commitment *)

to_g1(c) == G1_mul(G1_generator, c)

\* Poly::commitment
Poly_commitment(c) == [k \in 1..Len(c) |-> to_g1(c[k])]

RECURSIVE HornerG1(_, _, _, _)
HornerG1(c, xx, k, res) ==
    IF k = 0 THEN res
    ELSE HornerG1(c, xx, k - 1, G1_add(G1_mul(res, xx), c[k]))

Commitment_evaluate(c, xx) ==
    IF Len(c) = 0 THEN G1_generator ELSE HornerG1(c, xx, Len(c) - 1, c[Len(c)])

----------------------------------------------------------------------------
(* Operations on univariate polynomials *)

Polys == SeqsUpTo(Fr, MaxLen)

NoSamples == <<>>

NoBipoly == [degree |-> 0, coeff |-> <<>>]

\* nothing has been applied yet
Idle ==
    /\ op = "init"
    /\ p = <<>>
    /\ q = <<>>
    /\ x = 0
    /\ y = 0
    /\ samples = NoSamples
    /\ out = Ok(<<>>)

Init == Idle /\ bipoly = NoBipoly

\* every operation is applied once, to freshly chosen operands
Fresh == op = "init"

Binary(name, a, b, result) ==
    /\ op' = name
    /\ p' = a
    /\ q' = b
    /\ out' = result
    /\ UNCHANGED <<x, y, samples, bipoly>>

WithScalar(name, a, c, result) ==
    /\ op' = name
    /\ p' = a
    /\ x' = c
    /\ out' = result
    /\ UNCHANGED <<q, y, samples, bipoly>>

\* p + q
Add == Fresh /\ \E a \in Polys, b \in Polys : Binary("add", a, b, Ok(Poly_add_assign(a, b)))

\* p - q
Sub == Fresh /\ \E a \in Polys, b \in Polys : Binary("sub", a, b, Ok(Poly_sub_assign(a, b)))

\* p * q
Mul == Fresh /\ \E a \in Polys, b \in Polys : Binary("mul", a, b, Ok(Poly_mul(a, b)))

\* p * c
MulScalar == Fresh /\ \E a \in Polys, c \in Fr : WithScalar("mul_scalar", a, c, Ok(Poly_mul_scalar(a, c)))

\* p + c
AddScalar == Fresh /\ \E a \in Polys, c \in Fr : WithScalar("add_scalar", a, c, Poly_add_scalar(a, c))

\* p - c
SubScalar == Fresh /\ \E a \in Polys, c \in Fr : WithScalar("sub_scalar", a, c, Poly_sub_scalar(a, c))

\* Poly::zero()
Zero == Fresh /\ Binary("zero", <<>>, <<>>, Ok(Poly_zero))

\* Poly::one()
One == Fresh /\ Binary("one", <<>>, <<>>, Ok(Poly_one))

\* Poly::constant(c)
Constant == Fresh /\ \E c \in Fr : WithScalar("constant", <<>>, c, Ok(Poly_constant(c)))

\* Poly::monomial(d)
Monomial == Fresh /\ \E d \in 0..MaxLen : WithScalar("monomial", <<>>, d, Ok(Poly_monomial(d)))

\* Poly::random(d)
Random == Fresh /\ \E d \in 0..(MaxLen - 1) : \E r \in Poly_random(d) : WithScalar("random", <<>>, d, Ok(r))

\* p.commitment().evaluate(c)
CommitEvaluate ==
    Fresh /\ \E a \in Polys, c \in Fr :
        WithScalar("commit_evaluate", a, c, Ok(Commitment_evaluate(Poly_commitment(a), c)))

NextPoly ==
    \/ Add
    \/ Sub
    \/ Mul
    \/ MulScalar
    \/ AddScalar
    \/ SubScalar
    \/ Zero
    \/ One
    \/ Constant
    \/ Monomial
    \/ Random
    \/ CommitEvaluate

SpecPoly == Init /\ [][NextPoly]_vars

----------------------------------------------------------------------------
(* Poly::interpolate *)

\* the polynomial X - xx
Linear(xx) == <<neg(xx), Scalar_one>>

RECURSIVE InterpolationLoop(_, _, _, _)
\* the loop of compute_interpolation over samples[k..]; `poly` interpolates
\* the samples before k and `base` is zero on them
InterpolationLoop(s, k, poly, base) ==
    IF k > Len(s) THEN Ok(poly)
    ELSE LET xx == s[k][1]
             yy == s[k][2]
             diff == sub_assign(yy, Poly_evaluate(poly, xx))
             inv == invert(Poly_evaluate(base, xx))
         IN IF inv = <<>> THEN Panic
            ELSE LET scaled == Poly_mul_scalar(base, mul_assign(diff, inv[1]))
                 IN InterpolationLoop(s, k + 1, Poly_add_assign(poly, scaled),
                                      Poly_mul(scaled, Linear(xx)))

compute_interpolation(s) ==
    IF Len(s) = 0 THEN Ok(Poly_zero)
    ELSE InterpolationLoop(s, 2, Poly_constant(s[1][2]), Linear(s[1][1]))

\* Poly::interpolate: converts every (x, y) with into_scalar first
interpolate(s) == compute_interpolation([k \in 1..Len(s) |-> <<into_scalar(s[k][1]), into_scalar(s[k][2])>>])

SampleSeqs == SeqsUpTo(Fr \X Fr, MaxSamples)

\* tests::full: p1 = 5 X^3 + X - 2, built with the operators
FullPoly ==
    Poly_sub_scalar(Poly_add_assign(Poly_mul_scalar(Poly_monomial(3), into_scalar(5)),
                                    Poly_monomial(1)), into_scalar(2)).val

FullSamples == << <<-1, -8>>, <<2, 40>>, <<3, 136>>, <<5, 628>> >>

Interpolated(name, a, s, result) ==
    /\ op' = name
    /\ p' = a
    /\ samples' = s
    /\ out' = result
    /\ UNCHANGED <<q, x, y, bipoly>>

\* Poly::interpolate(samples) on scalars
Interpolate ==
    Fresh /\ \E s \in SampleSeqs : Interpolated("interpolate", <<>>, s, interpolate(s))

\* tests::full: interpolate the four integer samples of p1
Full ==
    /\ Fresh
    /\ Interpolated("full", FullPoly,
                    [k \in 1..Len(FullSamples) |->
                        <<into_scalar(FullSamples[k][1]), into_scalar(FullSamples[k][2])>>],
                    interpolate(FullSamples))

NextInterpolate ==
    \/ Interpolate
    \/ Full

SpecInterpolate == Init /\ [][NextInterpolate]_vars

----------------------------------------------------------------------------
(* util.rs: coeff_pos and powers *)

\* usize::MAX
usize_MAX == 2 ^ usize_BITS - 1

\* Option<usize>: a sequence of length 0 (None) or 1 (Some)
checked_add(a, b) == IF a + b > usize_MAX THEN <<>> ELSE <<a + b>>

checked_mul(a, b) == IF a * b > usize_MAX THEN <<>> ELSE <<a * b>>

\* fault: coeff_pos without the division of the triangular term by 2
coeff_pos_undivided(i, j) ==
    LET jj == IF j >= i THEN j ELSE i
        ii == IF j >= i THEN i ELSE j
    IN <<ii + jj * (jj + 1)>>

\* fault: coeff_pos that orders i but keeps j in the triangular term
coeff_pos_half_ordered(i, j) ==
    LET lo == IF j >= i THEN i ELSE j
    IN <<lo + (j * (j + 1)) \div 2>>

coeff_pos(i, j) ==
    LET jj == IF j >= i THEN j ELSE i
        ii == IF j >= i THEN i ELSE j
        j1 == checked_add(jj, 1)
    IN IF j1 = <<>> THEN <<>>
       ELSE LET m == checked_mul(jj, j1[1])
            IN IF m = <<>> THEN <<>> ELSE checked_add(ii, m[1] \div 2)

\* Option::expect / unwrap on a Some; BivarPoly::random unwraps
\* coeff_pos(degree, degree) + 1, so every position of a constructed
\* polynomial is a Some
expect(o) == o[1]

RECURSIVE powers(_, _)
\* x^0 .. x^degree
powers(xx, degree) ==
    IF degree = 0 THEN <<Scalar_one>>
    ELSE LET prev == powers(xx, degree - 1)
         IN Append(prev, mul_assign(prev[degree], xx))

----------------------------------------------------------------------------
(* BivarPoly and BivarCommitment *)

\* scalars a random coefficient is drawn from
Coefs == 0..MaxCoef

BivarPoly_len(degree) == expect(checked_add(expect(coeff_pos(degree, degree)), 1))

\* BivarPoly::random(degree): the polynomials it can return
BivarPoly_random(degree) ==
    {[degree |-> degree, coeff |-> c] : c \in [1..BivarPoly_len(degree) -> Coefs]}

\* BivarPoly::with_secret(secret, degree)
BivarPoly_with_secret(secret, degree) ==
    {[f EXCEPT !.coeff[1] = secret] : f \in BivarPoly_random(degree)}

BivarPoly_evaluate(f, xx, yy) ==
    LET x_pow == powers(xx, f.degree)
        y_pow == powers(yy, f.degree)
    IN SumTo([i \in 1..(f.degree + 1) |->
                SumTo([j \in 1..(f.degree + 1) |->
                         mul_assign(mul_assign(f.coeff[expect(coeff_pos(i - 1, j - 1)) + 1],
                                               x_pow[i]), y_pow[j])],
                      f.degree + 1)],
             f.degree + 1)

\* fault: row whose inner loop starts at j = 1
BivarPoly_row_skipping_first(f, xx) ==
    LET x_pow == powers(xx, f.degree)
    IN [i \in 1..(f.degree + 1) |->
          SumTo([j \in 1..(f.degree + 1) |->
                   IF j = 1 THEN Scalar_zero
                   ELSE mul_assign(f.coeff[expect(coeff_pos(i - 1, j - 1)) + 1], x_pow[j])],
                f.degree + 1)]

BivarPoly_row(f, xx) ==
    LET x_pow == powers(xx, f.degree)
    IN [i \in 1..(f.degree + 1) |->
          SumTo([j \in 1..(f.degree + 1) |->
                   mul_assign(f.coeff[expect(coeff_pos(i - 1, j - 1)) + 1], x_pow[j])],
                f.degree + 1)]

BivarPoly_commitment(f) ==
    [degree |-> f.degree, coeff |-> [k \in 1..Len(f.coeff) |-> to_g1(f.coeff[k])]]

RECURSIVE SumToG1(_, _)
\* sum of the points f[1..n], from the identity
SumToG1(f, n) == IF n = 0 THEN G1_identity ELSE G1_add(SumToG1(f, n - 1), f[n])

\* fault: evaluate that accumulates from the generator instead of the identity
BivarCommitment_evaluate_from_generator(c, xx, yy) ==
    LET x_pow == powers(xx, c.degree)
        y_pow == powers(yy, c.degree)
    IN G1_add(G1_generator,
         SumToG1([i \in 1..(c.degree + 1) |->
                SumToG1([j \in 1..(c.degree + 1) |->
                           G1_mul(G1_mul(c.coeff[expect(coeff_pos(i - 1, j - 1)) + 1],
                                         x_pow[i]), y_pow[j])],
                        c.degree + 1)],
             c.degree + 1))

BivarCommitment_evaluate(c, xx, yy) ==
    LET x_pow == powers(xx, c.degree)
        y_pow == powers(yy, c.degree)
    IN SumToG1([i \in 1..(c.degree + 1) |->
                SumToG1([j \in 1..(c.degree + 1) |->
                           G1_mul(G1_mul(c.coeff[expect(coeff_pos(i - 1, j - 1)) + 1],
                                         x_pow[i]), y_pow[j])],
                        c.degree + 1)],
             c.degree + 1)

RECURSIVE Commitment_remove_zeros(_)
Commitment_remove_zeros(c) ==
    IF Len(c) = 0 THEN c
    ELSE IF c[Len(c)] = G1_identity THEN Commitment_remove_zeros(SubSeq(c, 1, Len(c) - 1))
    ELSE c

\* fault: row that strips trailing identities, which BivarPoly::row does not
BivarCommitment_row_stripped(c, xx) ==
    LET x_pow == powers(xx, c.degree)
    IN Commitment_remove_zeros([i \in 1..(c.degree + 1) |->
          SumToG1([j \in 1..(c.degree + 1) |->
                     G1_mul(c.coeff[expect(coeff_pos(i - 1, j - 1)) + 1], x_pow[j])],
                  c.degree + 1)])

BivarCommitment_row(c, xx) ==
    LET x_pow == powers(xx, c.degree)
    IN [i \in 1..(c.degree + 1) |->
          SumToG1([j \in 1..(c.degree + 1) |->
                     G1_mul(c.coeff[expect(coeff_pos(i - 1, j - 1)) + 1], x_pow[j])],
                  c.degree + 1)]

----------------------------------------------------------------------------
(* The dealing steps of distributed key generation (bipoly.rs tests,      *)
(* tests/dkg.rs): a dealer's polynomial, the row sent to node m, the value *)
(* node m forwards to node s                                               *)

\* the dealer's polynomial: BivarPoly::random or BivarPoly::with_secret
BivarPolys ==
    UNION {BivarPoly_random(d) : d \in 0..MaxDegree}
        \cup UNION {BivarPoly_with_secret(sec, d) : sec \in Fr, d \in 0..MaxDegree}

\* the dealer has drawn its polynomial
InitDealt == Idle /\ bipoly \in BivarPolys

Dealt(name, m, s, result) ==
    /\ op' = name
    /\ x' = m
    /\ y' = s
    /\ out' = result
    /\ UNCHANGED <<p, q, samples, bipoly>>

\* node m receives its row and the row of the public commitment
NodeReceivesRow ==
    Fresh /\ \E m \in Fr :
        LET f == bipoly
            row_poly == BivarPoly_row(f, m)
        IN Dealt("row", m, 0,
                 Ok([row_poly |-> row_poly,
                     row_poly_commitment |-> Poly_commitment(row_poly),
                     row_commit |-> BivarCommitment_row(BivarPoly_commitment(f), m)]))

\* node s receives the s-th value of row m and checks it
NodeReceivesValue ==
    Fresh /\ \E m \in Fr, s \in Fr :
        LET f == bipoly
            val == Poly_evaluate(BivarPoly_row(f, m), s)
        IN Dealt("value", m, s,
                 Ok([val |-> val,
                     val_g1 |-> G1_mul(G1_generator, val),
                     commit_value |-> BivarCommitment_evaluate(BivarPoly_commitment(f), m, s),
                     value |-> BivarPoly_evaluate(f, m, s),
                     mirrored |-> BivarPoly_evaluate(f, s, m)]))

NextBivar ==
    \/ NodeReceivesRow
    \/ NodeReceivesValue

SpecBivar == InitDealt /\ [][NextBivar]_vars

\* sequences of n pairwise distinct scalars
DistinctPoints(n) == {s \in [1..n -> Fr] : \A i \in 1..n, j \in 1..n : i # j => s[i] # s[j]}

\* node m rebuilds its row from degree + 1 values f(m, s_k) forwarded by
\* other nodes
Reconstruct ==
    Fresh /\ \E m \in Fr :
        \E pts \in DistinctPoints(bipoly.degree + 1) :
            LET f == bipoly
                received == [k \in 1..Len(pts) |-> <<pts[k], BivarPoly_evaluate(f, m, pts[k])>>]
            IN /\ op' = "reconstruct"
               /\ x' = m
               /\ p' = BivarPoly_row(f, m)
               /\ samples' = received
               /\ out' = interpolate(received)
               /\ UNCHANGED <<q, y, bipoly>>

NextReconstruct ==
    \/ Reconstruct
    \/ NodeReceivesRow

SpecReconstruct == InitDealt /\ [][NextReconstruct]_vars

----------------------------------------------------------------------------
(* Commitment: addition and the public key (commitment.rs)                 *)

Min(a, b) == IF a <= b THEN a ELSE b

Max(a, b) == IF a >= b THEN a ELSE b

\* fault: add_assign that keeps trailing identities
Commitment_add_assign_unstripped(self, rhs) ==
    LET len == Max(Len(self), Len(rhs))
        resized == Resize(self, len, G1_identity)
    IN [k \in 1..Min(len, Len(rhs)) |-> G1_add(resized[k], rhs[k])]

\* self += rhs: self is resized to the longer length, the new coefficients
\* are the sums over zip(self, rhs), which ends with the shorter of the two
Commitment_add_assign(self, rhs) ==
    LET len == Max(Len(self), Len(rhs))
        resized == Resize(self, len, G1_identity)
        new_coeffs == [k \in 1..Min(len, Len(rhs)) |-> G1_add(resized[k], rhs[k])]
    IN Commitment_remove_zeros(new_coeffs)

\* a + b
Commitment_add(self, rhs) == Commitment_add_assign(self, rhs)

\* usize subtraction: panics on underflow
Commitment_degree(c) == IF Len(c) = 0 THEN Panic ELSE Ok(Len(c) - 1)

\* coeff[0] + coeff[1] + ... + coeff[len - 1]; coeff[0] panics when empty
Commitment_public_key(c) ==
    IF Len(c) = 0 THEN Panic ELSE Ok(SumToG1(c, Len(c)))

----------------------------------------------------------------------------
(* The end of distributed key generation (bipoly.rs tests): the first rows *)
(* of the dealers' polynomials and of their commitments are summed up      *)

\* number of dealers
dealer_num == 3

\* no dealer yet; y is the degree all dealers use (faulty_num)
InitSum ==
    /\ op = "init"
    /\ p = Poly_zero
    /\ q = <<>>
    /\ x = 0
    /\ y \in 0..MaxDegree
    /\ samples = NoSamples
    /\ bipoly = NoBipoly
    /\ out = Ok(Poly_commitment(Poly_zero))

\* what a dealer contributes to the sums: the first row of its polynomial
\* and the first row of its public commitment
DealerRows ==
    {[degree |-> f.degree,
      row |-> BivarPoly_row(f, 0),
      commit_row |-> BivarCommitment_row(BivarPoly_commitment(f), 0)] : f \in BivarPolys}

\* sec_key_set += bi_poly.row(0); sum_commit += bi_commit.row(0)
AddDealer ==
    /\ x < dealer_num
    /\ \E d \in DealerRows :
          /\ d.degree = y
          /\ op' = "sum_rows"
          /\ x' = x + 1
          /\ p' = Poly_add_assign(p, d.row)
          /\ out' = Ok(Commitment_add_assign(out.val, d.commit_row))
          /\ UNCHANGED <<q, y, samples, bipoly>>

NextSum ==
    \/ AddDealer

SpecSum == InitSum /\ [][NextSum]_vars

----------------------------------------------------------------------------
(* PublicKey, PublicKeySet (pk.rs, pk_set.rs).  A PublicKey is its G1      *)
(* point; a PublicKeySet is the record of its field `commit`.              *)

PublicKeySet_from(commit) == [commit |-> commit]

\* PublicKey(self.commit.coeff[0]): indexing panics when there is none
PublicKeySet_public_key(pks) ==
    IF Len(pks.commit) = 0 THEN Panic ELSE Ok(pks.commit[1])

PublicKeySet_threshold(pks) == Commitment_degree(pks.commit)

PublicKeySet_combine(self, other) ==
    PublicKeySet_from(Commitment_add_assign(self.commit, other.commit))

\* the Commitments of length 0..MaxLen, trailing identities included
Commitments == SeqsUpTo(G1, MaxLen)

\* a + b and a += b
CommitAdd ==
    Fresh /\ \E a \in Commitments, b \in Commitments :
        Binary("commit_add", a, b, Ok(Commitment_add(a, b)))

\* PublicKeySet{a}.combine(PublicKeySet{b})
Combine ==
    Fresh /\ \E a \in Commitments, b \in Commitments :
        Binary("combine", a, b,
               Ok(PublicKeySet_combine(PublicKeySet_from(a), PublicKeySet_from(b)).commit))

\* p.commitment().public_key() and PublicKeySet::from(p.commitment()).public_key()
CommitPublicKey ==
    Fresh /\ \E a \in Polys :
        Binary("public_key", a, <<>>,
               Ok([commitment_public_key |-> Commitment_public_key(Poly_commitment(a)),
                   pk_set_public_key |->
                       PublicKeySet_public_key(PublicKeySet_from(Poly_commitment(a)))]))

NextCommitment ==
    \/ CommitAdd
    \/ Combine
    \/ CommitPublicKey

SpecCommitment == Init /\ [][NextCommitment]_vars

----------------------------------------------------------------------------
(* G2, the pairing and the hashes (bls12_381, util.rs).  G2 is a cyclic    *)
(* group of order P like G1; Gt is written additively and the pairing of   *)
(* the points a, b is their product mod P, which is bilinear and           *)
(* non-degenerate.  A byte string is a sequence of small naturals.         *)

G2 == 0..(P - 1)

G2_identity == 0

G2_add(a, b) == (a + b) % P

\* point * scalar
G2_mul(a, s) == (a * s) % P

pairing(a, b) == (a * b) % P

RECURSIVE sha3_256(_)
\* the digest of a byte string, taken collision-free: an injective code of
\* the bytes and their number
sha3_256(data) ==
    IF Len(data) = 0 THEN 1
    ELSE sha3_256(SubSeq(data, 1, Len(data) - 1)) * (P + 1) + data[Len(data)] + 1

\* a G2 point drawn by a generator seeded with the digest: never the identity
hash_g2(msg) == 1 + (sha3_256(msg) % (P - 1))

\* a ^ b on naturals
RECURSIVE Xor(_, _)
Xor(a, b) ==
    IF a = 0 THEN b
    ELSE IF b = 0 THEN a
    ELSE ((a + b) % 2) + 2 * Xor(a \div 2, b \div 2)

\* the k-th byte (k >= 1) of the stream of ChaChaRng::from_seed(seed)
ChaChaRng_sample(seed, k) == (seed \div (2 ^ (k - 1))) % 4

\* zip of the stream with bytes: as many bytes as were given
xor_with_hash(g1, bytes) ==
    LET digest == sha3_256(<<g1>>)
    IN [k \in 1..Len(bytes) |-> Xor(ChaChaRng_sample(digest, k), bytes[k])]

\* a message longer than 64 bytes is replaced by its digest; then the
\* compressed point is appended
hash_g1_g2(g1, msg) ==
    LET m == IF Len(msg) > 64 THEN <<sha3_256(msg)>> ELSE msg
    IN hash_g2(m \o <<g1>>)

----------------------------------------------------------------------------
(* SecretKey, PublicKey, Ciphertext, SecretKeyShare (sk.rs, pk.rs,         *)
(* ciphertext.rs, sk_share.rs).  A SecretKey is its scalar, a Ciphertext   *)
(* the tuple <<U, V, W>>, an Option a sequence of length 0 or 1.           *)

SecretKey_public_key(sk) == G1_mul(G1_generator, sk)

SecretKey_sign(sk, msg) == G2_mul(hash_g2(msg), sk)

PublicKey_verify(pk, sig, msg) ==
    pairing(G1_generator, sig) = pairing(pk, hash_g2(msg))

\* r is the scalar drawn from the rng
PublicKey_encrypt_with_rng(pk, r, msg) ==
    LET u == G1_mul(G1_generator, r)
        v == xor_with_hash(G1_mul(pk, r), msg)
        w == G2_mul(hash_g1_g2(u, v), r)
    IN <<u, v, w>>

Ciphertext_verify(ct) ==
    pairing(G1_generator, ct[3]) = pairing(ct[1], hash_g1_g2(ct[1], ct[2]))

\* fault: decrypt that derives the pad from U alone
SecretKey_decrypt_unkeyed(sk, ct) ==
    IF ~Ciphertext_verify(ct) THEN <<>> ELSE <<xor_with_hash(ct[1], ct[2])>>

\* fault: decrypt without the validity check
SecretKey_decrypt_unverified(sk, ct) ==
    <<xor_with_hash(G1_mul(ct[1], sk), ct[2])>>

SecretKey_decrypt(sk, ct) ==
    IF ~Ciphertext_verify(ct) THEN <<>>
    ELSE <<xor_with_hash(G1_mul(ct[1], sk), ct[2])>>

SecretKeyShare_sign(sk, msg) == SecretKey_sign(sk, msg)

\* fault: a share made from the generator instead of U
SecretKeyShare_decrypt_share_of_generator(sk, ct) ==
    IF ~Ciphertext_verify(ct) THEN <<>> ELSE <<G1_mul(G1_generator, sk)>>

SecretKeyShare_decrypt_share(sk, ct) ==
    IF ~Ciphertext_verify(ct) THEN <<>> ELSE <<G1_mul(ct[1], sk)>>

----------------------------------------------------------------------------
(* SecretKeySet and the combining functions of PublicKeySet (sk_set.rs,    *)
(* pk_set.rs).  A SecretKeySet is the coeff of its poly; a share list is a *)
(* sequence of pairs <<index, share>>; an Err of a Result carries its      *)
(* message.                                                                *)

Err(e) == [panic |-> FALSE, err |-> e]

into_scalar_plus_1(i) == add_assign(Scalar_one, into_scalar(i))

\* fault: the share taken at the index itself instead of index + 1
SecretKeySet_secret_key_share_at_index(poly, i) == Poly_evaluate(poly, into_scalar(i))

SecretKeySet_secret_key_share(poly, i) == Poly_evaluate(poly, into_scalar_plus_1(i))

SecretKeySet_public_keys(poly) == PublicKeySet_from(Poly_commitment(poly))

\* fault: every item is kept
take_all(t, items) == items

\* items.into_iter().take(t + 1)
take(t, items) == SubSeq(items, 1, Min(Len(items), t + 1))

RECURSIVE ProdTo(_, _)
\* product of f[1..n] in the field
ProdTo(f, n) == IF n = 0 THEN Scalar_one ELSE mul_assign(ProdTo(f, n - 1), f[n])

\* x_prod[i] after the two loops: the product of the x before position i
\* times the product of the x after it
x_prod(xs, i) ==
    mul_assign(ProdTo(xs, i - 1),
               ProdTo([k \in 1..(Len(xs) - i) |-> xs[i + k]], Len(xs) - i))

\* the product of x0 - x over the samples whose x0 differs from x = xs[i]
denom(xs, i) ==
    ProdTo([k \in 1..Len(xs) |->
              IF xs[k] # xs[i] THEN sub_assign(xs[k], xs[i]) ELSE Scalar_one], Len(xs))

RECURSIVE SumToG2(_, _)
\* sum of the points f[1..n], from the identity
SumToG2(f, n) == IF n = 0 THEN G2_identity ELSE G2_add(SumToG2(f, n - 1), f[n])

decrypt_(t, items) ==
    LET taken == take(t, items)
        xs == [k \in 1..Len(taken) |-> into_scalar_plus_1(taken[k][1])]
    IN IF Len(taken) <= t THEN Err("not enough shares")
       ELSE IF t = 0 THEN Ok(taken[1][2])
       ELSE IF \E i \in 1..Len(xs) : invert(denom(xs, i)) = <<>> THEN Panic
       ELSE Ok(SumToG1([i \in 1..Len(xs) |->
                          G1_mul(taken[i][2],
                                 mul_assign(x_prod(xs, i), expect(invert(denom(xs, i)))))],
                       Len(xs)))

combine_signatures_(t, items) ==
    LET taken == take(t, items)
        xs == [k \in 1..Len(taken) |-> into_scalar_plus_1(taken[k][1])]
    IN IF Len(taken) <= t THEN Err("not enough shares")
       ELSE IF t = 0 THEN Ok(taken[1][2])
       ELSE IF \E i \in 1..Len(xs) : invert(denom(xs, i)) = <<>> THEN Panic
       ELSE Ok(SumToG2([i \in 1..Len(xs) |->
                          G2_mul(taken[i][2],
                                 mul_assign(x_prod(xs, i), expect(invert(denom(xs, i)))))],
                       Len(xs)))

PublicKeySet_combine_signatures(pks, shares) ==
    LET t == Commitment_degree(pks.commit)
    IN IF t.panic THEN Panic ELSE combine_signatures_(t.val, shares)

\* `?` hands an Err of decrypt_ on; otherwise the pad of g is removed from V
PublicKeySet_decrypt(pks, shares, ct) ==
    LET t == Commitment_degree(pks.commit)
        g == decrypt_(t.val, shares)
    IN IF t.panic THEN Panic
       ELSE IF g.panic \/ "err" \in DOMAIN g THEN g
       ELSE Ok(xor_with_hash(g.val, ct[2]))

----------------------------------------------------------------------------
(* Encryption to a public key and decryption (pk.rs tests::enc_dec)        *)

\* the messages that are signed and encrypted: byte strings of length 0, 1
\* and 2
Messages == {<<>>, <<1>>, <<0, 1>>}

\* the scalars drawn as encryption randomness for a key set: zero, one and
\* the largest scalar
Randomness == {0, 1, P - 1}

\* every triple <<U, V, W>>, valid or not
Ciphertexts == G1 \X Messages \X G2

\* ct = sk.public_key().encrypt(msg) with randomness r; ct.verify();
\* sk.decrypt(&ct)
EncryptDecrypt ==
    Fresh /\ \E sk \in Fr, r \in Fr, msg \in Messages :
        LET ct == PublicKey_encrypt_with_rng(SecretKey_public_key(sk), r, msg)
        IN /\ op' = "enc_dec"
           /\ x' = sk
           /\ y' = r
           /\ q' = msg
           /\ out' = Ok([ct |-> ct,
                         verify |-> Ciphertext_verify(ct),
                         decrypted |-> SecretKey_decrypt(sk, ct)])
           /\ UNCHANGED <<p, samples, bipoly>>

\* sk.decrypt(&ct) and SecretKeyShare(sk).decrypt_share(&ct) for any ct
DecryptAny ==
    Fresh /\ \E sk \in Fr, ct \in Ciphertexts :
        /\ op' = "decrypt"
        /\ x' = sk
        /\ q' = ct
        /\ out' = Ok([verify |-> Ciphertext_verify(ct),
                      decrypted |-> SecretKey_decrypt(sk, ct),
                      share |-> SecretKeyShare_decrypt_share(sk, ct)])
        /\ UNCHANGED <<p, y, samples, bipoly>>

NextEncrypt ==
    \/ EncryptDecrypt
    \/ DecryptAny

SpecEncrypt == Init /\ [][NextEncrypt]_vars

----------------------------------------------------------------------------
(* Threshold signing and decryption with the shares of a key set           *)

\* the polynomials of SecretKeySet::random(t), t in 0..MaxDegree, with
\* coefficients drawn from Coefs
KeySetPolys == UNION {[1..(t + 1) -> Coefs] : t \in 0..MaxDegree}

\* the share indices handed to a combining function, in the order given:
\* any 0..MaxSamples of them, repeated ones included
IndexSeqs == SeqsUpTo(0..(MaxSamples - 1), MaxSamples)

\* the key set has been drawn (p) and the message chosen (q)
InitKeySet ==
    /\ op = "init"
    /\ p \in KeySetPolys
    /\ q \in Messages
    /\ x = 0
    /\ y = 0
    /\ samples = NoSamples
    /\ bipoly = NoBipoly
    /\ out = Ok(<<>>)

\* pk_set.combine_signatures(idx.map(|i| (i, sk_set.secret_key_share(i).sign(msg))))
CombineSignatures ==
    Fresh /\ \E idx \in IndexSeqs :
        LET shares == [k \in 1..Len(idx) |->
                         <<idx[k], SecretKeyShare_sign(SecretKeySet_secret_key_share(p, idx[k]), q)>>]
        IN /\ op' = "combine_signatures"
           /\ samples' = shares
           /\ out' = PublicKeySet_combine_signatures(SecretKeySet_public_keys(p), shares)
           /\ UNCHANGED <<p, q, x, y, bipoly>>

\* the ciphertext of message q under the master public key, randomness r
MasterCiphertext(r) ==
    PublicKey_encrypt_with_rng(PublicKeySet_public_key(SecretKeySet_public_keys(p)).val, r, q)

\* ct = pk_set.public_key().encrypt(msg);
\* pk_set.decrypt(idx.map(|i| (i, sk_set.secret_key_share(i).decrypt_share(&ct))), &ct)
Decrypt ==
    Fresh /\ \E r \in Randomness, idx \in IndexSeqs :
        LET ct == MasterCiphertext(r)
            shares == [k \in 1..Len(idx) |->
                         <<idx[k], expect(SecretKeyShare_decrypt_share(
                                       SecretKeySet_secret_key_share(p, idx[k]), ct))>>]
        IN /\ op' = "decrypt_shares"
           /\ y' = r
           /\ samples' = shares
           /\ out' = PublicKeySet_decrypt(SecretKeySet_public_keys(p), shares, ct)
           /\ UNCHANGED <<p, q, x, bipoly>>

NextKeySet ==
    \/ CombineSignatures
    \/ Decrypt

SpecKeySet == InitKeySet /\ [][NextKeySet]_vars

\* pk_set.decrypt(shares, &ct) for any triple ct = <<U, V, W>>: the shares
\* are DecryptionShare values built through the public field, holding
\* f(i + 1) * U
DecryptForged ==
    Fresh /\ \E ct \in Ciphertexts, idx \in IndexSeqs :
        LET shares == [k \in 1..Len(idx) |->
                         <<idx[k], G1_mul(ct[1], SecretKeySet_secret_key_share(p, idx[k]))>>]
        IN /\ op' = "decrypt_forged"
           /\ q' = ct
           /\ samples' = shares
           /\ out' = PublicKeySet_decrypt(SecretKeySet_public_keys(p), shares, ct)
           /\ UNCHANGED <<p, x, y, bipoly>>

NextForged ==
    \/ DecryptForged

SpecForged == InitKeySet /\ [][NextForged]_vars

----------------------------------------------------------------------------
(* Signature: aggregation and aggregate verification (sig.rs) *)

\* Signature::is_valid: the compressed encoding of every G2 point has
\* SIGSIZE bytes
Signature_is_valid(sig) == sig \in G2

\* aggregate: `&sigs[0]` panics on an empty slice; otherwise sigs[0] plus
\* sigs[1..len]
aggregate(sigs) ==
    IF Len(sigs) = 0 THEN Panic
    ELSE IF \E k \in 1..Len(sigs) : ~Signature_is_valid(sigs[k])
    THEN Err("Cannot validate signature")
    ELSE LET rest == [k \in 1..(Len(sigs) - 1) |-> sigs[k + 1]]
         IN Ok(G2_add(sigs[1], SumToG2(rest, Len(rest))))

RECURSIVE MillerFold(_, _, _)
\* the fold of the Miller loops of (pk, h) pairs from MillerLoopResult::default
\* followed by the final exponentiation: the product in Gt of the pairings of
\* the first n pairs (zip stops at the shorter list)
MillerFold(public_keys, hashes, n) ==
    IF n = 0 THEN 0
    ELSE (MillerFold(public_keys, hashes, n - 1) + pairing(public_keys[n], hashes[n])) % P

core_aggregate_verify(signature, hashes, public_keys) ==
    IF Len(hashes) = 0 \/ Len(public_keys) = 0
    THEN Err("Either hashes or public_keys is empty")
    ELSE IF Len(hashes) # Len(public_keys)
    THEN Err("Length mismatch for public_keys and hashes!")
    ELSE IF \E i \in 1..(Len(hashes) - 1) : \E j \in (i + 1)..Len(hashes) : hashes[i] = hashes[j]
    THEN Err("Non-unique hashes found!")
    ELSE LET c1 == MillerFold(public_keys, hashes, Len(hashes))
             c2 == pairing(G1_generator, signature)
         IN Ok(c1 = c2)

verify_messages(signature, messages, public_keys) ==
    core_aggregate_verify(signature, [k \in 1..Len(messages) |-> hash_g2(messages[k])], public_keys)

----------------------------------------------------------------------------
(* Signing, aggregating and verifying *)

\* sk signs m and m'; pk verifies each signature against each message
SignVerify ==
    /\ Fresh
    /\ \E sk \in Fr : \E m \in Messages : \E m2 \in Messages :
         LET pk == SecretKey_public_key(sk) IN
         /\ op' = "sign_verify"
         /\ x' = sk
         /\ p' = m
         /\ q' = m2
         /\ out' = [same    |-> PublicKey_verify(pk, SecretKey_sign(sk, m), m),
                    other   |-> PublicKey_verify(pk, SecretKey_sign(sk, m), m2),
                    swapped |-> PublicKey_verify(pk, SecretKey_sign(sk, m2), m)]
         /\ UNCHANGED <<y, samples, bipoly>>

\* aggregate on any list of signatures
Aggregate ==
    /\ Fresh
    /\ \E sigs \in SeqsUpTo(G2, MaxLen) :
         /\ op' = "aggregate"
         /\ p' = sigs
         /\ out' = aggregate(sigs)
         /\ UNCHANGED <<q, x, y, samples, bipoly>>

\* n signers, each signing its own message; the signatures are aggregated and
\* the aggregate is verified against the messages and the public keys
AggregateVerify ==
    /\ Fresh
    /\ \E signers \in SeqsUpTo(Fr \X Messages, MaxLen) :
         LET n    == Len(signers)
             sigs == [k \in 1..n |-> SecretKey_sign(signers[k][1], signers[k][2])]
             msgs == [k \in 1..n |-> signers[k][2]]
             pks  == [k \in 1..n |-> SecretKey_public_key(signers[k][1])]
             agg  == aggregate(sigs)
         IN
         /\ Len(signers) >= 1
         /\ op' = "aggregate_verify"
         /\ samples' = signers
         /\ p' = sigs
         /\ out' = [agg |-> agg, verify |-> verify_messages(agg.val, msgs, pks)]
         /\ UNCHANGED <<q, x, y, bipoly>>

\* verify_messages on any signature, any list of messages and any list of
\* public keys
VerifyMessages ==
    /\ Fresh
    /\ \E sig \in G2 : \E msgs \in SeqsUpTo(Messages, MaxLen) : \E pks \in SeqsUpTo(G1, MaxLen) :
         /\ op' = "verify_messages"
         /\ x' = sig
         /\ q' = msgs
         /\ p' = pks
         /\ out' = verify_messages(sig, msgs, pks)
         /\ UNCHANGED <<y, samples, bipoly>>

NextSign ==
    \/ SignVerify
    \/ Aggregate
    \/ AggregateVerify
    \/ VerifyMessages

SpecSign == Init /\ [][NextSign]_vars

----------------------------------------------------------------------------
(* Integer arithmetic at the edges of the integer types *)

\* width of i32, in bits
i32_BITS == 4

\* width of u64 and of i64, in bits
u64_BITS == 2 * i32_BITS

\* `as u64` on a signed integer: sign extension, i.e. the value mod 2^64
as_u64(n) == n % (2 ^ u64_BITS)

\* IntoScalar for i32 (bits = i32_BITS) and for i64 (bits = u64_BITS).  `-self`
\* overflows on the minimum: a build with overflow checks panics there, a
\* build without them wraps the negation back to the minimum.
into_scalar_signed(n, bits, overflow_checks) ==
    IF n >= 0 THEN Ok(as_u64(n) % P)
    ELSE IF n = -(2 ^ (bits - 1))
    THEN IF overflow_checks THEN Panic ELSE Ok(neg(as_u64(n) % P))
    ELSE Ok(neg(as_u64(-n) % P))

\* Commitment::degree in a build without overflow checks: len - 1 wraps
Commitment_degree_wrapping(c) == Ok((Len(c) - 1) % (usize_MAX + 1))

SecretKeySet_threshold(poly) == Poly_degree(poly)

\* into_scalar on every i32 and every i64, in either build
IntoScalarSigned ==
    /\ Fresh
    /\ \E bits \in {i32_BITS, u64_BITS} : \E overflow_checks \in BOOLEAN :
       \E n \in (-(2 ^ (bits - 1)))..(2 ^ (bits - 1) - 1) :
         /\ op' = "into_scalar"
         /\ x' = n
         /\ y' = bits
         /\ out' = into_scalar_signed(n, bits, overflow_checks)
         /\ UNCHANGED <<p, q, samples, bipoly>>

\* coeff_pos on every pair of usize
CoeffPos ==
    /\ Fresh
    /\ \E i \in 0..usize_MAX : \E j \in 0..usize_MAX :
         /\ op' = "coeff_pos"
         /\ x' = i
         /\ y' = j
         /\ out' = coeff_pos(i, j)
         /\ UNCHANGED <<p, q, samples, bipoly>>

\* the thresholds of the SecretKeySet of a Poly and of its PublicKeySet, in
\* either build
Thresholds ==
    /\ Fresh
    /\ \E poly \in Polys : \E overflow_checks \in BOOLEAN :
         LET pks == SecretKeySet_public_keys(poly) IN
         /\ op' = "threshold"
         /\ p' = poly
         /\ out' = [sk_set |-> SecretKeySet_threshold(poly),
                    degree |-> Poly_degree(poly),
                    pk_set |-> IF overflow_checks THEN PublicKeySet_threshold(pks)
                               ELSE Commitment_degree_wrapping(pks.commit)]
         /\ UNCHANGED <<q, x, y, samples, bipoly>>

NextOverflow ==
    \/ IntoScalarSigned
    \/ CoeffPos
    \/ Thresholds

SpecOverflow == Init /\ [][NextOverflow]_vars

----------------------------------------------------------------------------
(* Zeroize and Drop of the values that hold secret scalars *)

\* fault: clear_scalar that leaves the scalar as it is
clear_scalar_kept(scalar) == scalar

\* util::clear_scalar: the four limbs of the representation are zeroized
clear_scalar(scalar) == Scalar_zero

\* Zeroize for Poly: every coefficient is cleared, the vector keeps its length
Poly_zeroize(coeff) == [k \in 1..Len(coeff) |-> clear_scalar(coeff[k])]

\* Zeroize for BivarPoly: every coefficient is cleared and the degree zeroized
BivarPoly_zeroize(f) ==
    [degree |-> 0, coeff |-> [k \in 1..Len(f.coeff) |-> clear_scalar(f.coeff[k])]]

\* Zeroize for SecretKey
SecretKey_zeroize(sk) == clear_scalar(sk)

\* The scalars a value leaves in its storage when it is dropped.
\* Drop for SecretKey and Drop for BivarPoly call zeroize
SecretKey_drop(sk) == SecretKey_zeroize(sk)

BivarPoly_drop(f) == BivarPoly_zeroize(f)

\* Poly has no Drop: its Vec<Scalar> is freed as it is
Poly_drop(coeff) == coeff

\* SecretKeySet has no Drop: its field `poly` is dropped
SecretKeySet_drop(poly) == Poly_drop(poly)

\* SecretKeyShare has no Drop: its field, a SecretKey, is dropped
SecretKeyShare_drop(sk) == SecretKey_drop(sk)

ZeroizePoly ==
    /\ Fresh
    /\ \E coeff \in Polys :
         /\ op' = "zeroize_poly"
         /\ p' = coeff
         /\ out' = Ok(Poly_zeroize(coeff))
         /\ UNCHANGED <<q, x, y, samples, bipoly>>

ZeroizeSecretKey ==
    /\ Fresh
    /\ \E sk \in Fr :
         /\ op' = "zeroize_sk"
         /\ x' = sk
         /\ out' = Ok(SecretKey_zeroize(sk))
         /\ UNCHANGED <<p, q, y, samples, bipoly>>

ZeroizeBivarPoly ==
    /\ Fresh
    /\ \E f \in BivarPolys :
         /\ op' = "zeroize_bipoly"
         /\ bipoly' = f
         /\ out' = Ok(BivarPoly_zeroize(f))
         /\ UNCHANGED <<p, q, x, y, samples>>

\* a value of `kind` holding `scalars` is cloned; the original is dropped,
\* leaving `released` in its storage, while the clone lives on; then the
\* clone is dropped
Dropped(kind, scalars, released) ==
    /\ op' = "drop"
    /\ p' = scalars
    /\ out' = [kind |-> kind, released |-> released, clone |-> scalars,
               clone_released |-> released]
    /\ UNCHANGED <<q, x, y, samples, bipoly>>

Drop ==
    /\ Fresh
    /\ \/ \E coeff \in Polys : Dropped("Poly", coeff, Poly_drop(coeff))
       \/ \E coeff \in Polys : Dropped("SecretKeySet", coeff, SecretKeySet_drop(coeff))
       \/ \E sk \in Fr : Dropped("SecretKey", <<sk>>, <<SecretKey_drop(sk)>>)
       \/ \E sk \in Fr : Dropped("SecretKeyShare", <<sk>>, <<SecretKeyShare_drop(sk)>>)
       \/ \E f \in BivarPolys : Dropped("BivarPoly", f.coeff, BivarPoly_drop(f).coeff)

NextZeroize ==
    \/ ZeroizePoly
    \/ ZeroizeSecretKey
    \/ ZeroizeBivarPoly
    \/ Drop

SpecZeroize == Init /\ [][NextZeroize]_vars

----------------------------------------------------------------------------
(* Claims about Poly and Commitment *)

DistinctX(s) == \A i \in 1..Len(s), j \in 1..Len(s) : i # j => s[i][1] # s[j][1]

NoTrailingZero(c) == Len(c) = 0 \/ c[Len(c)] # 0

\* C1: for every Poly p (the zero polynomial included) and scalar x,
\* p.commitment().evaluate(x) = p.evaluate(x) * g1
C1_CommitmentEvaluates ==
    op = "commit_evaluate" => out.val = G1_mul(G1_generator, Poly_evaluate(p, x))

\* C2: for k >= 1 samples with pairwise distinct x, interpolate returns a
\* polynomial of degree <= k - 1 through every sample; the four samples of
\* 5 X^3 + X - 2 give back that polynomial
C2_InterpolateFits ==
    /\ (op = "interpolate" /\ Len(samples) >= 1 /\ DistinctX(samples)) =>
          /\ ~out.panic
          /\ Len(out.val) <= Len(samples)
          /\ \A k \in 1..Len(samples) : Poly_evaluate(out.val, samples[k][1]) = samples[k][2]
    /\ op = "full" => (~out.panic /\ out.val = p)

\* C3: interpolate fails only if two samples share an x-coordinate
C3_InterpolateFailsOnlyOnDuplicate ==
    (op = "interpolate" /\ out.panic) => ~DistinctX(samples)

\* C4: (p + q)(x) = p(x) + q(x), (p - q)(x) = p(x) - q(x) and
\* (p * q)(x) = p(x) * q(x) for all p, q of any lengths and every scalar x
C4_ArithmeticEvaluates ==
    /\ op = "add" => \A xx \in Fr :
          Poly_evaluate(out.val, xx) = add_assign(Poly_evaluate(p, xx), Poly_evaluate(q, xx))
    /\ op = "sub" => \A xx \in Fr :
          Poly_evaluate(out.val, xx) = sub_assign(Poly_evaluate(p, xx), Poly_evaluate(q, xx))
    /\ op = "mul" => \A xx \in Fr :
          Poly_evaluate(out.val, xx) = mul_assign(Poly_evaluate(p, xx), Poly_evaluate(q, xx))

\* a sum whose right operand is the longer one, with both operands non-zero
C4_Witness ==
    /\ op = "add"
    /\ Len(q) > Len(p)
    /\ Len(p) > 0
    /\ ~Poly_is_zero(p)
    /\ q[Len(q)] # 0
    /\ Len(out.val) = Len(q)

PolyResultOps ==
    {"zero", "one", "constant", "monomial", "random", "add", "sub", "mul",
     "mul_scalar", "add_scalar", "sub_scalar"}

\* C5: every Poly returned by a constructor, by an operation on polynomials
\* without trailing zeros, by interpolate or by BivarPoly::row is empty or
\* ends in a non-zero coefficient
C5_ResultHasNoTrailingZero ==
    /\ (op \in PolyResultOps /\ NoTrailingZero(p) /\ NoTrailingZero(q) /\ ~out.panic)
          => NoTrailingZero(out.val)
    /\ (op = "interpolate" /\ ~out.panic) => NoTrailingZero(out.val)
    /\ op = "row" => NoTrailingZero(out.val.row_poly)

----------------------------------------------------------------------------
(* Claims about BivarPoly and BivarCommitment *)

\* C6: f.row(m).commitment() and f.commitment().row(m) are the same
\* Commitment (same length, same points), also when the row's top
\* coefficient is zero
C6_RowCommitmentAgrees ==
    op = "row" => out.val.row_poly_commitment = out.val.row_commit

\* a non-zero row of a polynomial of degree >= 1 whose top coefficient is zero
C6_Witness ==
    /\ op = "row"
    /\ bipoly.degree >= 1
    /\ out.val.row_poly[Len(out.val.row_poly)] = 0
    /\ ~Poly_is_zero(out.val.row_poly)
    /\ Len(out.val.row_commit) = bipoly.degree + 1

\* C7: f.evaluate(m, s) = f.evaluate(s, m) for every f made by random or
\* with_secret
C7_EvaluateSymmetric ==
    op = "value" => out.val.value = out.val.mirrored

\* two different points of a polynomial with a non-zero mixed coefficient
C7_Witness ==
    /\ op = "value"
    /\ bipoly.degree >= 1
    /\ x # y
    /\ bipoly.coeff[expect(coeff_pos(0, 1)) + 1] # 0
    /\ out.val.value # 0

\* C8: f.row(m).evaluate(s) = f.evaluate(m, s)
C8_RowEvaluates ==
    op = "value" => out.val.val = out.val.value

\* a forwarded value that differs from the constant coefficient
C8_Witness ==
    /\ op = "value"
    /\ bipoly.degree >= 1
    /\ x # 0
    /\ y # 0
    /\ out.val.val # bipoly.coeff[1]
    /\ out.val.val # 0

\* C9: f.evaluate(m, s) * g1 = f.commitment().evaluate(m, s)
C9_CommitmentValue ==
    op = "value" => G1_mul(G1_generator, out.val.value) = out.val.commit_value

\* a value whose commitment is not the identity
C9_Witness ==
    /\ op = "value"
    /\ bipoly.degree >= 1
    /\ x # 0
    /\ y # 0
    /\ out.val.commit_value # G1_identity
    /\ out.val.commit_value = out.val.val_g1

\* C10: interpolating degree + 1 values f(m, s_k) at pairwise distinct s_k
\* gives a Poly equal to f.row(m), whose value at 0 is f(m, 0) = f(0, m)
C10_ReconstructsRow ==
    op = "reconstruct" =>
        /\ ~out.panic
        /\ out.val = p
        /\ Poly_evaluate(out.val, 0) = BivarPoly_evaluate(bipoly, x, 0)
        /\ BivarPoly_evaluate(bipoly, x, 0) = BivarPoly_evaluate(bipoly, 0, x)

----------------------------------------------------------------------------
(* Claims about Commitment sums and key sets *)

\* C11: for dealers' BivarPolys of one degree, adding every
\* f_D.commitment().row(0) to the commitment of the zero polynomial gives
\* the commitment of the Poly got by adding every f_D.row(0) to Poly::zero()
C11_SumOfCommitments ==
    op = "sum_rows" => out.val = Poly_commitment(p)

\* all dealers have been added, the degree is at least 1, and the sum is a
\* non-zero polynomial shorter than the rows that were added
C11_Witness ==
    /\ op = "sum_rows"
    /\ x = dealer_num
    /\ y >= 1
    /\ Len(p) >= 1
    /\ Len(p) < y + 1
    /\ out.val # Poly_commitment(Poly_zero)

\* k-th coefficient, a missing one taken as the identity
CoeffOrIdentity(c, k) == IF k <= Len(c) THEN c[k] ELSE G1_identity

\* the coefficient-wise sum with trailing identities stripped
CoefficientwiseSum(a, b) ==
    Commitment_remove_zeros([k \in 1..Max(Len(a), Len(b)) |->
        G1_add(CoeffOrIdentity(a, k), CoeffOrIdentity(b, k))])

\* C12: for Commitments a, b of any lengths, a + b, a += b and
\* PublicKeySet::combine give the coefficient-wise sum (a missing coefficient
\* is the identity) with trailing identities stripped, and a + b = b + a
C12_AddIsCoefficientwise ==
    op \in {"commit_add", "combine"} =>
        /\ out.val = CoefficientwiseSum(p, q)
        /\ Commitment_add(p, q) = Commitment_add(q, p)

\* C13: for a Poly p with at least one coefficient, p.commitment().public_key()
\* is PublicKey(p.evaluate(0) * g1) and is the public key of the PublicKeySet
\* made from p.commitment()
C13_PublicKeyIsConstantCoefficient ==
    (op = "public_key" /\ Len(p) >= 1) =>
        /\ out.val.commitment_public_key = Ok(G1_mul(G1_generator, Poly_evaluate(p, 0)))
        /\ out.val.commitment_public_key = out.val.pk_set_public_key

----------------------------------------------------------------------------
(* Claims about encryption *)

\* C18: for every SecretKey sk, message m and randomness r, the ciphertext
\* ct = sk.public_key().encrypt(m) verifies, its V is as long as m, and
\* sk.decrypt(ct) = Some(m)
C18_EncryptDecrypt ==
    op = "enc_dec" =>
        /\ out.val.verify
        /\ Len(out.val.ct[2]) = Len(q)
        /\ out.val.decrypted = <<q>>

\* a non-empty message under a non-zero key and randomness, whose V differs
\* from the message
C18_Witness ==
    /\ op = "enc_dec"
    /\ x # 0
    /\ y # 0
    /\ Len(q) >= 1
    /\ out.val.ct[2] # q
    /\ out.val.decrypted = <<q>>

\* C19: SecretKey::decrypt and SecretKeyShare::decrypt_share return None
\* exactly when ct.verify() is false; otherwise they return Some of the
\* plaintext V xor pad(sk * U), resp. of the share sk * U
C19_NoneIffInvalid ==
    op = "decrypt" =>
        /\ out.val.verify = Ciphertext_verify(q)
        /\ (out.val.decrypted = <<>>) <=> ~out.val.verify
        /\ (out.val.share = <<>>) <=> ~out.val.verify
        /\ out.val.verify =>
              /\ out.val.decrypted = <<xor_with_hash(G1_mul(q[1], x), q[2])>>
              /\ out.val.share = <<G1_mul(q[1], x)>>

\* an invalid ciphertext with a non-empty V and a U other than the identity
C19_Witness ==
    /\ op = "decrypt"
    /\ ~out.val.verify
    /\ q[1] # G1_identity
    /\ Len(q[2]) >= 1
    /\ out.val.decrypted = <<>>
    /\ out.val.share = <<>>

----------------------------------------------------------------------------
(* Claims about key sets *)

\* the threshold of the key set drawn: the degree of its commitment
Threshold == Len(p) - 1

DistinctIndices(s) == \A i \in 1..Len(s), j \in 1..Len(s) : i # j => s[i][1] # s[j][1]

\* C14: the shares of a message at any t + 1 pairwise distinct indices
\* combine to Ok(f(0) * H2(m)), whatever the indices, and the result verifies
\* under the master public key
C14_CombinedSignature ==
    (op = "combine_signatures" /\ Len(samples) = Threshold + 1 /\ DistinctIndices(samples)) =>
        /\ out = Ok(G2_mul(hash_g2(q), Poly_evaluate(p, 0)))
        /\ PublicKey_verify(PublicKeySet_public_key(SecretKeySet_public_keys(p)).val,
                            out.val, q)

\* two distinct shares of a key set of threshold 1 with a non-zero master
\* secret, the first share not being share 0
C14_Witness ==
    /\ op = "combine_signatures"
    /\ Threshold = 1
    /\ Len(samples) = 2
    /\ DistinctIndices(samples)
    /\ samples[1][1] # 0
    /\ p[1] # 0
    /\ p[2] # 0
    /\ out = Ok(G2_mul(hash_g2(q), p[1]))

\* C15: with fewer than t + 1 shares both combining functions return the
\* error "not enough shares" (the empty list included); with more than t + 1
\* the result is that of the first t + 1
C15_NotEnoughShares ==
    /\ (op \in {"combine_signatures", "decrypt_shares"} /\ Len(samples) <= Threshold) =>
          out = Err("not enough shares")
    /\ (op = "combine_signatures" /\ Len(samples) > Threshold + 1) =>
          out = PublicKeySet_combine_signatures(SecretKeySet_public_keys(p),
                                                SubSeq(samples, 1, Threshold + 1))
    /\ (op = "decrypt_shares" /\ Len(samples) > Threshold + 1) =>
          out = PublicKeySet_decrypt(SecretKeySet_public_keys(p),
                                     SubSeq(samples, 1, Threshold + 1), MasterCiphertext(y))

\* threshold 1 and three shares, the third repeating the second
C15_Witness ==
    /\ op = "combine_signatures"
    /\ Threshold = 1
    /\ Len(samples) = 3
    /\ samples[1][1] # samples[2][1]
    /\ samples[3][1] = samples[2][1]
    /\ p[2] # 0
    /\ out = Ok(G2_mul(hash_g2(q), p[1]))

\* C16: when two of the shares that are combined carry the same index, the
\* combination fails with an error
C16_DuplicateShare ==
    (/\ op \in {"combine_signatures", "decrypt_shares"}
     /\ Len(samples) >= Threshold + 1
     /\ ~DistinctIndices(SubSeq(samples, 1, Threshold + 1))) =>
        "err" \in DOMAIN out

\* C17: the decryption shares of ct = master_public_key.encrypt(m) at any
\* t + 1 pairwise distinct indices combine to exactly m
C17_CombinedDecryption ==
    (op = "decrypt_shares" /\ Len(samples) = Threshold + 1 /\ DistinctIndices(samples)) =>
        out = Ok(q)

\* a non-empty message, threshold 1, non-zero randomness and master secret
C17_Witness ==
    /\ op = "decrypt_shares"
    /\ Threshold = 1
    /\ Len(samples) = 2
    /\ DistinctIndices(samples)
    /\ Len(q) >= 1
    /\ y # 0
    /\ p[1] # 0
    /\ p[2] # 0
    /\ MasterCiphertext(y)[2] # q
    /\ out = Ok(q)

\* C20: PublicKeySet::decrypt returns no plaintext for a ciphertext whose
\* verify() is false: it refuses with an error
C20_DecryptRefusesInvalid ==
    (op = "decrypt_forged" /\ ~Ciphertext_verify(q)) => "err" \in DOMAIN out

----------------------------------------------------------------------------
(* Claims about Poly and scalars *)

\* C28: for every Poly p (no coefficients, or all coefficients zero,
\* included) and every scalar c (0 included), p + c and p - c return without
\* panicking a Poly q with q(x) = p(x) + c, resp. p(x) - c, at every x
C28_ScalarSumEvaluates ==
    /\ op = "add_scalar" =>
          /\ ~out.panic
          /\ \A xx \in Fr : Poly_evaluate(out.val, xx) = add_assign(Poly_evaluate(p, xx), x)
    /\ op = "sub_scalar" =>
          /\ ~out.panic
          /\ \A xx \in Fr : Poly_evaluate(out.val, xx) = sub_assign(Poly_evaluate(p, xx), x)

----------------------------------------------------------------------------
(* Claims about signatures *)

\* C21: for every SecretKey sk (a random one, the default one, one made from
\* any scalar), pk = sk.public_key() and messages m, m' with H2(m) # H2(m'):
\* pk.verify(sk.sign(m), m) is true, pk.verify(sk.sign(m), m') is false and
\* pk.verify(sk.sign(m'), m) is false
C21_SignVerify ==
    op = "sign_verify" =>
        /\ out.same
        /\ hash_g2(p) # hash_g2(q) => ~out.other /\ ~out.swapped

\* the list `l` with element k replaced by v
Replaced(l, k, v) == [l EXCEPT ![k] = v]

\* C22: for n >= 1 key pairs and messages with pairwise distinct H2(m_i):
\* aggregate sums all n signatures, verify_messages on the aggregate, the
\* messages and the public keys returns Ok(true), and it returns Ok(false)
\* once one message, one signature or one public key is replaced by a
\* different one
C22_AggregateVerify ==
    op = "aggregate_verify" =>
        LET n    == Len(samples)
            msgs == [k \in 1..n |-> samples[k][2]]
            pks  == [k \in 1..n |-> SecretKey_public_key(samples[k][1])]
            DistinctHashes(ms) ==
                \A i \in 1..Len(ms) : \A j \in 1..Len(ms) : i # j => hash_g2(ms[i]) # hash_g2(ms[j])
        IN DistinctHashes(msgs) =>
             /\ out.agg = Ok(SumToG2(p, n))
             /\ out.verify = Ok(TRUE)
             /\ \A k \in 1..n :
                  /\ \A m \in Messages :
                       (hash_g2(m) # hash_g2(msgs[k]) /\ DistinctHashes(Replaced(msgs, k, m)))
                       => verify_messages(out.agg.val, Replaced(msgs, k, m), pks) = Ok(FALSE)
                  /\ \A pk \in G1 \ {pks[k]} :
                       verify_messages(out.agg.val, msgs, Replaced(pks, k, pk)) = Ok(FALSE)
                  /\ \A sig \in G2 \ {p[k]} :
                       verify_messages(aggregate(Replaced(p, k, sig)).val, msgs, pks) = Ok(FALSE)

\* C23: shape violations are returned as Err and never panic: aggregate on
\* an empty list of signatures; aggregate verification with no hashes or no
\* keys, with different numbers of messages and keys, or with two equal
\* hashed messages
C23_ShapeErrors ==
    /\ (op = "aggregate" /\ Len(p) = 0) => (~out.panic /\ "err" \in DOMAIN out)
    /\ (op = "verify_messages"
         /\ \/ Len(q) = 0
            \/ Len(p) = 0
            \/ Len(q) # Len(p)
            \/ \E i \in 1..Len(q) : \E j \in 1..Len(q) : i # j /\ hash_g2(q[i]) = hash_g2(q[j]))
       => (~out.panic /\ "err" \in DOMAIN out)

----------------------------------------------------------------------------
(* Claims about integer arithmetic *)

\* C25: for every Poly p, the zero polynomial included:
\* SecretKeySet::from(p).threshold() = p.degree() =
\* SecretKeySet::from(p).public_keys().threshold(), with degree 0 for the
\* zero polynomial and no arithmetic underflow
C25_ThresholdIsDegree ==
    op = "threshold" =>
        /\ out.sk_set = out.degree
        /\ out.pk_set = Ok(out.degree)
        /\ p = Poly_zero => out.degree = 0

\* C27: for every signed integer n of i32 and i64, the minimum included:
\* into_scalar(n) is n for n >= 0 and the field negation of |n| for n < 0,
\* into_scalar(n) + into_scalar(|n|) = 0 for n < 0, and no integer overflow
\* occurs
C27_SignedIntoScalar ==
    op = "into_scalar" =>
        LET abs == IF x >= 0 THEN x ELSE -x IN
        /\ ~out.panic
        /\ x >= 0 => out.val = x % P
        /\ x < 0 => out.val = neg(abs % P) /\ add_assign(out.val, abs % P) = Scalar_zero

\* C30: coeff_pos(i, j) is None exactly when the position
\* min + max * (max + 1) / 2 does not fit in a usize, Some(position) for
\* every position that fits, and never a wrapped value
C30_NoneIffUnrepresentable ==
    op = "coeff_pos" =>
        LET position == Min(x, y) + (Max(x, y) * (Max(x, y) + 1)) \div 2 IN
        /\ out = <<>> <=> position > usize_MAX
        /\ out # <<>> => out[1] = position

----------------------------------------------------------------------------
(* Claims about zeroization *)

\* C24: every value carrying secret scalars (Poly, BivarPoly, SecretKey,
\* SecretKeySet, SecretKeyShare) has overwritten all its scalars with zero
\* when it is dropped; a clone is untouched by the drop of the original and
\* overwrites its own scalars when it is dropped
C24_DropZeroizes ==
    op = "drop" =>
        /\ \A k \in 1..Len(out.released) : out.released[k] = Scalar_zero
        /\ out.clone = p
        /\ \A k \in 1..Len(out.clone_released) : out.clone_released[k] = Scalar_zero

\* C29: after an explicit zeroize a Poly is_zero() and evaluates to 0 at
\* every x, a SecretKey equals the zero key, and a BivarPoly has every
\* coefficient and its stored degree zero while its commitment evaluates to
\* the G1 identity at every (x, y)
C29_ZeroizeClears ==
    /\ op = "zeroize_poly" =>
          /\ Poly_is_zero(out.val)
          /\ \A xx \in Fr : Poly_evaluate(out.val, xx) = Scalar_zero
    /\ op = "zeroize_sk" => out.val = Scalar_zero
    /\ op = "zeroize_bipoly" =>
          /\ \A k \in 1..Len(out.val.coeff) : out.val.coeff[k] = Scalar_zero
          /\ out.val.degree = 0
          /\ \A xx \in Fr : \A yy \in Fr :
                BivarCommitment_evaluate(BivarPoly_commitment(out.val), xx, yy) = G1_identity

\* a Poly with a non-zero coefficient, a non-zero SecretKey or a BivarPoly of
\* degree >= 1 with a non-zero coefficient was zeroized
C29_Witness ==
    \/ op = "zeroize_poly" /\ ~Poly_is_zero(p) /\ Len(out.val) = Len(p)
    \/ op = "zeroize_sk" /\ x # Scalar_zero
    \/ op = "zeroize_bipoly" /\ bipoly.degree >= 1
          /\ \E k \in 1..Len(bipoly.coeff) : bipoly.coeff[k] # Scalar_zero

----------------------------------------------------------------------------
(* Claims about the positions of the coefficients of a BivarPoly *)

\* C26: coeff_pos(i, j) = coeff_pos(j, i) = min + max * (max + 1) / 2; the
\* pairs i <= j in the order (0,0), (0,1), (1,1), (0,2), ... get consecutive
\* positions, so coeff_pos is a bijection from {(i, j) : i <= j <= d} onto
\* 0..(d+1)(d+2)/2 - 1, and BivarPoly::random(d) stores exactly
\* (d+1)(d+2)/2 coefficients
C26_CoeffPosBijection ==
    (op = "coeff_pos" /\ out # <<>>) =>
        LET lo       == Min(x, y)
            hi       == Max(x, y)
            count    == ((hi + 1) * (hi + 2)) \div 2
            next     == IF lo = hi THEN <<0, hi + 1>> ELSE <<lo + 1, hi>>
            next_pos == coeff_pos(next[1], next[2])
        IN /\ out = coeff_pos(y, x)
           /\ out[1] = lo + (hi * (hi + 1)) \div 2
           /\ next_pos # <<>> => next_pos[1] = out[1] + 1
           /\ out[1] \in 0..(count - 1)
           /\ \A a \in 0..hi : \A b \in a..hi : coeff_pos(a, b) = out => (a = lo /\ b = hi)
           /\ lo = hi => \A n \in 0..(count - 1) :
                             \E b \in 0..hi : \E a \in 0..b : coeff_pos(a, b) = <<n>>
           /\ (lo = hi /\ out[1] < usize_MAX) => BivarPoly_len(hi) = count
           /\ (lo = hi /\ hi <= MaxDegree) =>
                  \A f \in BivarPoly_random(hi) : Len(f.coeff) = count

\* the hundredth pair of the enumeration, given in the order j < i
C26_Witness ==
    /\ op = "coeff_pos"
    /\ x = 13
    /\ y = 8
    /\ out = <<99>>

====
